---- MODULE Spec2Model ----
(***************************************************************************)
(* Retrieval-augmented conversational query engine of edhub360/Backend.    *)
(*                                                                         *)
(*  SpecMem    : Notes/utils/session_memory.py, the bounded session store  *)
(*               and its background TTL sweeper.                           *)
(*  SpecStore  : ai_chat/app/utils/faiss_handler.py, the flat in-memory    *)
(*               index with its on-disk snapshot.                          *)
(*  SpecChat   : ai_chat/app/routes/chat.py, the chat handler.             *)
(*  SpecIngest : ingestion into both vector stores, FaissStore and the     *)
(*               relational store of Notes (routes/sources.py,             *)
(*               services/embedding_service.py).                           *)
(*  SpecSearch : search of both vector stores over drawn store contents.   *)
(*  SpecHist   : get_history of both SessionMemory classes with a caller   *)
(*               that keeps and mutates the returned list.                 *)
(*  SpecNotesChat : Notes/routes/chat.py, the chat handler, with the      *)
(*               prompt of Notes/services/gemini_service.py.               *)
(*  SpecAuth   : login/app/routes/auth_routes.py, login, refresh and       *)
(*               logout over the refresh_tokens table.                     *)
(*  SpecCsBot  : cs_bot/app/routers/chat.py, concurrent chat requests over  *)
(*               the history kept in Redis.                                *)
(*  SpecChunk  : chunk_text of ai_chat/app/utils/text_processing.py, loop   *)
(*               iteration by iteration, and chunk_text of Notes.          *)
(***************************************************************************)
EXTENDS Integers, Sequences, FiniteSets, TLC

\* ------------------------------------------------------------------------
\* Bounds of the model
\* ------------------------------------------------------------------------
MaxHistory == 2
MaxTime == 2
CleanupInterval == 1
MaxMsgs == MaxHistory + 1
MaxVectors == 3
MaxK == 2
MaxChatLen == 3
MaxSources == 2
MaxWords == 4
MaxChunkSize == 3
MaxOverlap == 3
MaxChunks == MaxWords + 1
MaxRequests == 3
MaxTokens == 3

SessionIds == {"s1", "s2"}
Roles == {"user", "assistant"}

VARIABLES
    sessions,       \* SessionMemory._sessions : session id -> deque of messages
    timestamps,     \* SessionMemory._session_timestamps : session id -> last access
    now,            \* datetime.now()
    sweepPc,        \* position of cleanup_worker / cleanup_old_sessions
    cutoff,         \* cutoff_time local of cleanup_old_sessions
    nextMsg,        \* number of the next message content
    appended,       \* history: messages appended since creation / last clear
    sweptLog,       \* history: the sessions removed by the sweep in progress or
                    \* last completed, with last_activity and time of removal
    touchedInSweep, \* history: sessions touched between the cutoff computation
                    \* and the locked block of that sweep
    sweepRaised     \* history: some sweep ended in the except branch of the worker

memVars == <<sessions, timestamps, now, sweepPc, cutoff, nextMsg, appended, sweptLog,
            touchedInSweep, sweepRaised>>

VARIABLES
    index,          \* FaissStore.index : the vectors of the IndexFlatL2, in add order
    metadata,       \* FaissStore.metadata : list of {"text", "source"}
    diskIndex,      \* the file faiss_index.bin
    diskMeta,       \* the file metadata.pkl
    storeOut,       \* outcome of the latest FaissStore call
    everAdded       \* history: the metadata entries add_documents has appended

storeVars == <<index, metadata, diskIndex, diskMeta, storeOut, everAdded>>

VARIABLES
    chatSessions,   \* ai_chat session_memory.sessions : session id -> list of Message
    chatOut         \* the latest ai_chat chat request and its response

chatVars == <<chatSessions, chatOut>>

VARIABLES
    dbSources,      \* committed rows of the sources table, in order of their ids
    dbEmbeddings,   \* committed rows of the embeddings table
    addReq,         \* the add_source request in flight
    notesOut,       \* the latest completed add_source request
    relOut          \* the latest relational search and its result

notesVars == <<dbSources, dbEmbeddings, addReq, notesOut, relOut>>

VARIABLES
    ctFn,           \* the chunk_text called last: "ai_chat", "notes" or "none"
    ctPc,           \* its position: "idle", "loop" (in the while loop), "done"
    ctText,         \* its argument text
    ctSize,         \* its argument chunk_size (max_tokens for Notes)
    ctOverlap,      \* its argument overlap (0 for Notes, which has none)
    ctStart,        \* the local start of the loop of ai_chat
    ctChunks        \* the local chunks, the return value once ctPc = "done"

chunkVars == <<ctFn, ctPc, ctText, ctSize, ctOverlap, ctStart, ctChunks>>

VARIABLES
    held            \* the list a caller got from get_history and still holds
                    \* (history: with its content when it was returned and the
                    \* messages the caller appended to it itself)

histVars == <<held>>

VARIABLES
    nchatOut        \* the latest Notes chat request and its response

nchatVars == <<nchatOut>>

VARIABLES
    csRedis,        \* cs_bot, Redis: session id of key "chat:{id}" -> stored history
    csReq,          \* cs_bot: the chat request each worker is handling
    csStarted,      \* cs_bot: the number of chat requests received
    csCompleted     \* history: the turns of the chat requests that returned

csVars == <<csRedis, csReq, csStarted, csCompleted>>

VARIABLES
    refresh_tokens, \* login: committed rows of refresh_tokens, by order of issue
    authReq,        \* login: the refresh request each worker is handling
    authOut,        \* login: the latest response of the auth routes
    loggedOut       \* history: the tokens for which a logout has succeeded

authVars == <<refresh_tokens, authReq, authOut, loggedOut>>

vars == <<memVars, storeVars, chatVars, notesVars, chunkVars, histVars, nchatVars, csVars,
          authVars>>

\* ------------------------------------------------------------------------
\* Helpers
\* ------------------------------------------------------------------------
\* dict assignment d[k] = v
Put(d, k, v) == [x \in (DOMAIN d) \cup {k} |-> IF x = k THEN v ELSE d[x]]

\* del d[k] for every k in ks
Drop(d, ks) == [x \in (DOMAIN d) \ ks |-> d[x]]

\* the last n elements of a sequence
LastN(seq, n) ==
    IF Len(seq) <= n THEN seq ELSE SubSeq(seq, Len(seq) - n + 1, Len(seq))

\* a plain list in place of the bounded deque
DequeAppendUnbounded(d, m) == Append(d, m)

\* deque(maxlen=max_history_per_session).append : a full deque discards its
\* leftmost item
DequeAppend(d, m) ==
    IF Len(d) < MaxHistory THEN Append(d, m) ELSE Append(Tail(d), m)

\* defaultdict lookup self._sessions[session_id]: a missing key is created
\* with an empty deque
Lookup(d, k) == IF k \in DOMAIN d THEN d[k] ELSE <<>>

\* the comparison with <= : a session idle for exactly the interval is swept
ExpiredInclusive(last_access, cutoff_time) == last_access <= cutoff_time

\* the interval subtracted a second time
ExpiredTwice(last_access, cutoff_time) == last_access < cutoff_time - CleanupInterval

\* cleanup_old_sessions: last_access < cutoff_time
Expired(last_access, cutoff_time) == last_access < cutoff_time

\* ------------------------------------------------------------------------
\* Notes SessionMemory
\* ------------------------------------------------------------------------
\* history bookkeeping: a request handler touched session s
Touch(s) ==
    /\ touchedInSweep' = IF sweepPc = "locked" THEN touchedInSweep \cup {s}
                                               ELSE touchedInSweep
    /\ UNCHANGED <<now, sweepPc, cutoff, sweptLog, sweepRaised>>

MemInit ==
    /\ sessions = <<>>
    /\ timestamps = <<>>
    /\ now = 0
    /\ sweepPc = "sleep"
    /\ cutoff = 0
    /\ nextMsg = 1
    /\ appended = <<>>
    /\ sweptLog = {}
    /\ touchedInSweep = {}
    /\ sweepRaised = FALSE

add_message(s, role) ==
    /\ nextMsg <= MaxMsgs
    \* the message's own "timestamp" string is written here and read by no
    \* operation of the class; the session's last access is kept in timestamps
    /\ LET message == [role |-> role, content |-> nextMsg]
       IN /\ sessions' = Put(sessions, s, DequeAppend(Lookup(sessions, s), message))
          /\ appended' = Put(appended, s, Append(Lookup(appended, s), message))
    /\ timestamps' = Put(timestamps, s, now)
    /\ nextMsg' = nextMsg + 1
    /\ Touch(s)

get_history(s) ==
    /\ timestamps' = Put(timestamps, s, now)
    /\ sessions' = Put(sessions, s, Lookup(sessions, s))
    /\ appended' = Put(appended, s, Lookup(appended, s))
    /\ UNCHANGED nextMsg
    /\ Touch(s)

\* the session is removed where it should be emptied
clear_history_removes(s) ==
    /\ sessions' = Drop(sessions, {s})
    /\ timestamps' = Drop(timestamps, {s})
    /\ appended' = Drop(appended, {s})
    /\ UNCHANGED <<now, sweepPc, cutoff, nextMsg, sweptLog, touchedInSweep, sweepRaised>>

clear_history(s) ==
    /\ IF s \in DOMAIN sessions
       THEN /\ sessions' = Put(sessions, s, <<>>)
            /\ timestamps' = Put(timestamps, s, now)
            /\ appended' = Put(appended, s, <<>>)
            /\ Touch(s)
       ELSE UNCHANGED <<sessions, timestamps, appended, now, sweepPc, cutoff,
                        sweptLog, touchedInSweep, sweepRaised>>
    /\ UNCHANGED nextMsg

\* get_session_stats: "total_sessions"
total_sessions == Cardinality(DOMAIN sessions)

\* the timestamp of a deleted session is left behind
delete_session_keeps_timestamp(s) ==
    /\ sessions' = Drop(sessions, {s})
    /\ appended' = Drop(appended, {s})
    /\ UNCHANGED <<timestamps, now, sweepPc, cutoff, nextMsg, sweptLog, touchedInSweep,
                   sweepRaised>>

delete_session(s) ==
    /\ IF s \in DOMAIN sessions
       THEN /\ sessions' = Drop(sessions, {s})
            /\ timestamps' = Drop(timestamps, {s})
            /\ appended' = Drop(appended, {s})
       ELSE UNCHANGED <<sessions, timestamps, appended>>
    /\ UNCHANGED <<now, sweepPc, cutoff, nextMsg, sweptLog, touchedInSweep, sweepRaised>>

\* cleanup_old_sessions, first statement: the cutoff is computed before the
\* lock is taken
cleanup_cutoff ==
    /\ sweepPc = "sleep"
    /\ cutoff' = now - CleanupInterval
    /\ sweepPc' = "locked"
    /\ sweptLog' = {}
    /\ touchedInSweep' = {}
    /\ UNCHANGED <<sessions, timestamps, now, nextMsg, appended, sweepRaised>>

\* cleanup_old_sessions, the block under self._lock: collect and delete
cleanup_locked ==
    /\ sweepPc = "locked"
    /\ LET sessions_to_delete ==
               {s \in DOMAIN timestamps : Expired(timestamps[s], cutoff)}
       IN /\ sessions' = Drop(sessions, sessions_to_delete)
          /\ timestamps' = Drop(timestamps, sessions_to_delete)
          /\ appended' = Drop(appended, sessions_to_delete)
          /\ sweptLog' = {[id |-> s, last_activity |-> timestamps[s], removed_at |-> now] :
                              s \in sessions_to_delete}
    /\ sweepPc' = "sleep"
    /\ cutoff' = 0
    /\ UNCHANGED <<now, nextMsg, touchedInSweep, sweepRaised>>

\* cleanup_worker: an exception of the sweep is logged and the loop goes on
cleanup_raise ==
    /\ sweepPc = "locked"
    /\ sweepPc' = "sleep"
    /\ cutoff' = 0
    /\ sweepRaised' = TRUE
    /\ UNCHANGED <<sessions, timestamps, now, nextMsg, appended, sweptLog, touchedInSweep>>

\* the wall clock advances
Tick ==
    /\ now < MaxTime
    /\ now' = now + 1
    /\ UNCHANGED <<sessions, timestamps, sweepPc, cutoff, nextMsg, appended, sweptLog,
                   touchedInSweep, sweepRaised>>

MemNext ==
    \/ \E s \in SessionIds, role \in Roles : add_message(s, role)
    \/ \E s \in SessionIds : get_history(s)
    \/ \E s \in SessionIds : clear_history(s)
    \/ \E s \in SessionIds : delete_session(s)
    \/ cleanup_cutoff
    \/ cleanup_locked
    \/ cleanup_raise
    \/ Tick

\* ------------------------------------------------------------------------
\* ai_chat FaissStore
\* ------------------------------------------------------------------------
\* uploaded files, their chunk texts and the query texts of the model
Files == {"f1", "f2"}
Texts == {"t1", "t2"}
Queries == {"q_ok", "q_bad"}

\* upload_documents: chunk_text(extract_text(file)) of an uploaded file
ChunksOf(file) == IF file = "f1" THEN <<"t1", "t2">> ELSE <<"t2">>

\* genai.embed_content: the embedding vector of a text (retrieval_document for
\* chunks, retrieval_query for queries), here of dimension 1
Embed(text) ==
    CASE text = "t1" -> <<0>>
      [] text = "t2" -> <<2>>
      [] text = "q_ok" -> <<2>>
      [] OTHER -> <<0>>

Vectors == {Embed(t) : t \in Texts}
QueryVectors == {Embed(q) : q \in Queries}

\* embed_texts(texts): one vector per text; n is the number of vectors the
\* provider delivered
EmbedTexts(texts, n) == [i \in 1..n |-> Embed(texts[i])]

RECURSIVE SumSq(_, _, _)
SumSq(a, b, i) ==
    IF i > Len(a) THEN 0 ELSE (a[i] - b[i]) * (a[i] - b[i]) + SumSq(a, b, i + 1)

\* IndexFlatL2 metric: squared Euclidean distance
SqL2(a, b) == SumSq(a, b, 1)

Min(a, b) == IF a < b THEN a ELSE b

\* a file of the storage directory
NoFile == [state |-> "absent", data |-> <<>>]
Corrupt == [state |-> "corrupt", data |-> <<>>]
FileOf(d) == [state |-> "ok", data |-> d]

\* the index lists IndexFlatL2.search may return for query q and k results:
\* the k nearest vectors by ascending distance; the order among vectors at
\* the same distance is left to the library
NearestLists(idx, q, k) ==
    {l \in [1..k -> 1..Len(idx)] :
        /\ \A i, j \in 1..k : i < j => l[i] # l[j]
        /\ \A i, j \in 1..k : i < j => SqL2(idx[l[i]], q) <= SqL2(idx[l[j]], q)
        /\ \A i \in 1..k : \A o \in 1..Len(idx) :
               (\A j \in 1..k : l[j] # o) => SqL2(idx[l[i]], q) <= SqL2(idx[o], q)}

\* the score FaissStore.search puts in a result tuple
FaissScore(distance) == distance

RECURSIVE CollectResults(_, _, _, _, _)
\* the result loop of FaissStore.search: hits without a metadata entry are skipped
CollectResults(idx, meta, q, l, i) ==
    IF i > Len(l) THEN <<>>
    ELSE LET rest == CollectResults(idx, meta, q, l, i + 1)
         IN IF l[i] <= Len(meta)
            THEN <<[text |-> meta[l[i]].text, source |-> meta[l[i]].source,
                    score |-> FaissScore(SqL2(idx[l[i]], q))]>> \o rest
            ELSE rest

\* the limit k is not applied
SearchKAll(idx, k) == Len(idx)

\* the k handed to index.search
SearchK(idx, k) == Min(k, Len(idx))

\* the possible return values of FaissStore.search(query_embedding, k)
SearchResults(idx, meta, q, k) ==
    IF Len(idx) = 0 THEN {<<>>}
    ELSE {CollectResults(idx, meta, q, l, 1) : l \in NearestLists(idx, q, SearchK(idx, k))}

NoCall ==
    [op |-> "none", result |-> "none", nvectors |-> 0, ntexts |-> 0,
     q |-> <<0>>, k |-> 0, results |-> <<>>]

StoreInit ==
    /\ index = <<>>
    /\ metadata = <<>>
    /\ diskIndex = NoFile
    /\ diskMeta = NoFile
    /\ storeOut = NoCall
    /\ everAdded = {}

\* the metadata entries add_documents appends for texts
MetaFor(texts, source) == [i \in 1..Len(texts) |-> [text |-> texts[i], source |-> source]]

\* only a surplus of vectors is rejected
CountMismatchSurplus(embeddings, texts) == Len(embeddings) > Len(texts)

\* the guard of add_documents: embeddings.shape[0] != len(texts)
CountMismatch(embeddings, texts) == Len(embeddings) # Len(texts)

\* FaissStore.add_documents(embeddings, texts, source) with _save_data;
\* save is how far _save_data got: "ok", "index_failed" (write_index raised),
\* "meta_failed" (the index file is written, the metadata file is not)
add_documents(embeddings, texts, source, save, damaged) ==
    /\ Len(index) + Len(embeddings) <= MaxVectors
    /\ Len(metadata) + Len(texts) <= MaxVectors
    /\ IF CountMismatch(embeddings, texts)
       THEN /\ storeOut' = [NoCall EXCEPT !.op = "add", !.result = "ValueError",
                               !.nvectors = Len(embeddings), !.ntexts = Len(texts)]
            /\ UNCHANGED <<index, metadata, diskIndex, diskMeta, everAdded>>
       ELSE /\ index' = index \o embeddings
            /\ everAdded' = everAdded \cup
                   {MetaFor(texts, source)[i] : i \in 1..Len(texts)}
            /\ metadata' = metadata \o MetaFor(texts, source)
            /\ diskIndex' = CASE save = "index_failed" ->
                                     IF damaged THEN Corrupt ELSE diskIndex
                              [] OTHER -> FileOf(index')
            /\ diskMeta' = CASE save = "index_failed" -> diskMeta
                             [] save = "meta_failed" ->
                                     IF damaged THEN Corrupt ELSE diskMeta
                             [] OTHER -> FileOf(metadata')
            /\ storeOut' = [NoCall EXCEPT !.op = "add",
                               !.result = IF save = "ok" THEN "ok" ELSE "RuntimeError",
                               !.nvectors = Len(embeddings), !.ntexts = Len(texts)]

\* FaissStore.search(query_embedding, k)
search(q, k) ==
    /\ \E r \in SearchResults(index, metadata, q, k) :
           storeOut' = [NoCall EXCEPT !.op = "search", !.result = "ok", !.q = q,
                                      !.k = k, !.results = r]
    /\ UNCHANGED <<index, metadata, diskIndex, diskMeta, everAdded>>

\* a new process that loads nothing
RestartEmpty ==
    /\ index' = <<>>
    /\ metadata' = <<>>
    /\ storeOut' = [NoCall EXCEPT !.op = "load"]
    /\ UNCHANGED <<diskIndex, diskMeta, everAdded>>

\* a new process: FaissStore.__init__ with _initialize_index and
\* _load_existing_data
Restart ==
    /\ IF diskIndex.state = "ok" /\ diskMeta.state = "ok"
       THEN /\ index' = diskIndex.data
            /\ metadata' = diskMeta.data
       ELSE /\ index' = <<>>
            /\ metadata' = <<>>
    /\ storeOut' = [NoCall EXCEPT !.op = "load"]
    /\ UNCHANGED <<diskIndex, diskMeta, everAdded>>

StoreNext ==
    \/ \E file \in Files, save \in {"ok", "index_failed", "meta_failed"},
          damaged \in BOOLEAN :
           \E n \in 1..Len(ChunksOf(file)) :
               add_documents(EmbedTexts(ChunksOf(file), n), ChunksOf(file), file,
                             save, damaged)
    \/ \E q \in QueryVectors, k \in 1..MaxK : search(q, k)
    \/ Restart

\* ------------------------------------------------------------------------
\* ai_chat chat handler
\* ------------------------------------------------------------------------
\* Texts are sequences of words; the fixed messages of the handlers are
\* single words.
Refusal == <<"REFUSAL">>            \* "Your request cannot be processed ..."
PolicyMessage == <<"POLICY">>       \* "Sorry, I cannot provide a response ..."
Apology == <<"APOLOGY">>            \* "I apologize, but I couldn't generate ..."
NoDocsNotice == <<"NO_DOCS">>       \* "No relevant documents found. Here's ..."
SorryError(e) == <<"SORRY_ERROR", e>>   \* "Sorry, I encountered an error ...: {e}"
NoDocsError == <<"NO_DOCUMENTS">>   \* str() of HTTPException(400, "No documents ...")
EmbedError(e) == <<"ERROR_QUERY_EMBEDDING", e>> \* "Error generating query embedding: {e}"
ErrorDetail(e) == <<"ERROR_PROCESSING">> \o e  \* "Error processing chat request: {e}"

\* the error texts of the providers (embedding, language model)
ProviderErrorTexts == {"e1"}

ChatModes == {"general", "rag"}

\* what the language-model provider does with a prompt
LlmOutcomes == {"a_ok", "a_bad", "empty", "raise"}

\* the blocked terms of the harmful-content policy
HarmfulTerms == {"q_bad", "a_bad"}

\* app.utils.moderation.contains_harmful_content(text)
contains_harmful_content(text) == \E i \in 1..Len(text) : text[i] \in HarmfulTerms

\* the moderation gate ahead of everything else is switched off
PreCheckOff(query) == FALSE

\* chat: the pre-check of the user query
PreCheck(query) == contains_harmful_content(<<query>>)

RECURSIVE JoinContents(_, _)
\* " ".join(m.content for m in history)
JoinContents(history, i) ==
    IF i > Len(history) THEN <<>>
    ELSE history[i].content \o JoinContents(history, i + 1)

\* GeminiHandler.generate_response: the prompt built from query and context
GeminiPrompt(query, context) ==
    IF Len(context) > 0
    THEN [kind |-> "rag", context |-> context, question |-> query]
    ELSE [kind |-> "general", context |-> <<>>, question |-> query]

\* GeminiHandler.generate_response: the returned text; an exception of the
\* provider is turned into a text
GeminiText(llm) ==
    CASE llm = "empty" -> Apology
      [] llm = "raise" -> SorryError("e1")
      [] OTHER -> <<llm>>

\* SessionMemory.append_message of ai_chat
append_message(mem, sid, role, content) ==
    Put(mem, sid, Append(Lookup(mem, sid), [role |-> role, content |-> content]))

\* SessionMemory.get_history of ai_chat followed by the append of the user
\* message: for an existing session the returned list is the stored list and
\* sees the append, for a new session it is a fresh empty list
HistoryAfterAppend(mem, sid, query) ==
    IF sid \in DOMAIN mem
    THEN Append(mem[sid], [role |-> "user", content |-> <<query>>])
    ELSE <<>>

NoChat ==
    [query |-> "none", mode |-> "none", session |-> "none", kind |-> "none",
     status |-> 0, answer |-> <<>>, retrieval |-> "none", retrieved |-> <<>>,
     prompts |-> <<>>, appended |-> <<>>, llm |-> "none", detail |-> <<>>]

ChatInit ==
    /\ chatSessions = <<>>
    /\ chatOut = NoChat

\* ["user: " + m.content for m in history] + ["doc: " + c for c in doc_contexts]
FullContext(history, docs) ==
    [i \in 1..Len(history) |-> <<"user:">> \o history[i].content]
        \o [i \in 1..Len(docs) |-> <<"doc:", docs[i].text>>]

\* POST /chat of ai_chat.  llm is the provider's behaviour, embedOk whether
\* embed_query succeeds, hits what FaissStore.search returns.
chat(query, mode, top_k, sid, llm, embedOk, hits) ==
    LET req == [NoChat EXCEPT !.query = query, !.mode = mode, !.session = sid]
        userMsg == [role |-> "user", content |-> <<query>>]
        history == HistoryAfterAppend(chatSessions, sid, query)
        withUser == append_message(chatSessions, sid, "user", <<query>>)
        text == GeminiText(llm)
    IN
    /\ Len(Lookup(chatSessions, sid)) + 2 <= MaxChatLen
    /\ UNCHANGED storeVars
    /\ IF PreCheck(query)
       THEN /\ chatOut' = [req EXCEPT !.kind = "answer", !.status = 200,
                                      !.answer = Refusal]
            /\ UNCHANGED chatSessions
       ELSE IF mode = "general"
       THEN LET context == JoinContents(history, 1)
                answer == IF contains_harmful_content(text)
                          THEN PolicyMessage ELSE text
            IN /\ chatSessions' = append_message(withUser, sid, "assistant", answer)
               /\ chatOut' = [req EXCEPT !.kind = "answer", !.status = 200,
                                 !.answer = answer, !.llm = llm,
                                 !.prompts = <<GeminiPrompt(context, <<>>)>>,
                                 !.appended = <<userMsg,
                                     [role |-> "assistant", content |-> answer]>>]
       ELSE IF Len(index) = 0 \/ ~embedOk
       THEN \* HTTPException(400) and RuntimeError alike end in the handler's
            \* except clause
            /\ chatSessions' = withUser
            /\ chatOut' = [req EXCEPT !.kind = "error", !.status = 500,
                              !.retrieval = IF Len(index) = 0 THEN "empty_store"
                                                              ELSE "embed_failed",
                              !.detail = ErrorDetail(IF Len(index) = 0 THEN NoDocsError
                                                     ELSE EmbedError("e1")),
                              !.appended = <<userMsg>>]
       ELSE IF Len(hits) = 0
       THEN /\ chatSessions' = append_message(withUser, sid, "assistant", text)
            /\ chatOut' = [req EXCEPT !.kind = "answer", !.status = 200,
                              !.answer = NoDocsNotice \o text, !.llm = llm,
                              !.retrieval = "zero",
                              !.prompts = <<GeminiPrompt(<<query>>, <<>>)>>,
                              !.appended = <<userMsg,
                                  [role |-> "assistant", content |-> text]>>]
       ELSE /\ chatSessions' = append_message(withUser, sid, "assistant", text)
            /\ chatOut' = [req EXCEPT !.kind = "answer", !.status = 200,
                              !.answer = text, !.llm = llm,
                              !.retrieval = "hits",
                              !.retrieved = hits,
                              !.prompts = <<GeminiPrompt(<<query>>,
                                              FullContext(history, hits))>>,
                              !.appended = <<userMsg,
                                  [role |-> "assistant", content |-> text]>>]

\* the states of the FaissStore a chat request may find: empty, after the
\* upload of f1, and after a restart that loaded an index file newer than the
\* metadata file
ChatStores ==
    { [index |-> <<>>, metadata |-> <<>>],
      [index |-> EmbedTexts(ChunksOf("f1"), 2), metadata |-> MetaFor(ChunksOf("f1"), "f1")],
      [index |-> EmbedTexts(ChunksOf("f1"), 2) \o EmbedTexts(ChunksOf("f2"), 1),
       metadata |-> MetaFor(ChunksOf("f1"), "f1")] }

ChatStoreInit ==
    /\ \E st \in ChatStores :
           /\ index = st.index
           /\ metadata = st.metadata
           /\ diskIndex = IF Len(st.index) = 0 THEN NoFile ELSE FileOf(st.index)
           /\ diskMeta = IF Len(st.metadata) = 0 THEN NoFile ELSE FileOf(st.metadata)
           /\ everAdded = {st.metadata[i] : i \in 1..Len(st.metadata)}
    /\ storeOut = NoCall

\* the requests whose outcome does not depend on retrieval, and the RAG
\* requests that reach the embedding of the query
ChatNext ==
    \/ \E query \in Queries, mode \in ChatModes, sid \in SessionIds, llm \in LlmOutcomes :
           /\ PreCheck(query) \/ mode = "general" \/ Len(index) = 0
           /\ chat(query, mode, 1, sid, llm, TRUE, <<>>)
    \/ \E query \in Queries, sid \in SessionIds :
           /\ ~PreCheck(query) /\ Len(index) > 0
           /\ chat(query, "rag", 1, sid, "a_ok", FALSE, <<>>)
    \/ \E query \in Queries, top_k \in 1..MaxK, sid \in SessionIds, llm \in LlmOutcomes :
           /\ ~PreCheck(query) /\ Len(index) > 0
           /\ \E hits \in SearchResults(index, metadata, Embed(query), top_k) :
                  chat(query, "rag", top_k, sid, llm, TRUE, hits)

\* ------------------------------------------------------------------------
\* Notes ingestion: add_source and store_embeddings_for_source
\* ------------------------------------------------------------------------
Notebooks == {"n1", "n2"}
NotesDocs == {"d_short", "d1", "d2"}

\* chunk_text(source.extracted_text) of the documents of the model
NotesChunks(doc) ==
    CASE doc = "d1" -> <<"c1", "c2">>
      [] doc = "d2" -> <<"c3">>
      [] OTHER -> <<"c0">>

\* add_source: len(extracted_text.strip()) > 50
Substantial(doc) == doc # "d_short"

\* embed_text of Notes: the embedding of a chunk or of a query
NotesEmbed(text) ==
    CASE text = "c1" -> <<1, 0>>
      [] text = "c2" -> <<3, 4>>
      [] text = "c3" -> <<3, -4>>
      [] text = "q_ok" -> <<4, 3>>
      [] OTHER -> <<1, 0>>

\* embed_texts_batch: the first n vectors for chunks
NotesEmbedBatch(chunks, n) == [i \in 1..n |-> NotesEmbed(chunks[i])]

\* a mismatch is let through
VectorsMismatchNever(chunks, vectors) == FALSE

\* store_embeddings_for_source: len(vectors) != len(chunks)
VectorsMismatch(chunks, vectors) == Len(vectors) # Len(chunks)

Idle == [pc |-> "idle", id |-> 0, doc |-> "none"]

NoAdd ==
    [op |-> "none", status |-> 0, id |-> 0, embeddings_generated |-> FALSE,
     ingest |-> "none", nchunks |-> 0, nvectors |-> 0]

NoSearch ==
    [op |-> "none", result |-> "none", query |-> "none", top_n |-> 0, results |-> <<>>]

NotesInit ==
    /\ dbSources = <<>>
    /\ dbEmbeddings = {}
    /\ addReq = Idle
    /\ notesOut = NoAdd
    /\ relOut = NoSearch

\* the Embedding rows store_embeddings_for_source builds for a source
RowsFor(id, chunks, vectors) ==
    {[source_id |-> id, chunk |-> chunks[i], vector |-> vectors[i]] :
        i \in 1..Min(Len(chunks), Len(vectors))}

\* add_source up to the commit of the source record.  valid: the notebook and
\* type checks pass; commitOk: session.commit() succeeds
add_source_commit(nb, doc, valid, commitOk) ==
    /\ addReq.pc = "idle"
    /\ Len(dbSources) < MaxSources
    /\ UNCHANGED <<dbEmbeddings, relOut>>
    /\ IF ~valid
       THEN /\ notesOut' = [NoAdd EXCEPT !.op = "add_source", !.status = 400]
            /\ UNCHANGED <<dbSources, addReq>>
       ELSE IF ~commitOk
       THEN /\ notesOut' = [NoAdd EXCEPT !.op = "add_source", !.status = 500]
            /\ UNCHANGED <<dbSources, addReq>>
       ELSE /\ dbSources' = Append(dbSources, [notebook_id |-> nb, doc |-> doc])
            /\ IF Substantial(doc)
               THEN /\ addReq' = [pc |-> "embed", id |-> Len(dbSources) + 1, doc |-> doc]
                    /\ UNCHANGED notesOut
               ELSE /\ notesOut' = [NoAdd EXCEPT !.op = "add_source", !.status = 201,
                                       !.id = Len(dbSources) + 1, !.ingest = "skipped"]
                    /\ UNCHANGED addReq

\* add_source from the call of store_embeddings_for_source to the response.
\* n: the number of vectors embed_texts_batch returns; embedOk: no embed_text
\* call raises; commitOk: the commit of the Embedding rows succeeds
add_source_embed(n, embedOk, commitOk) ==
    LET chunks == NotesChunks(addReq.doc)
        vectors == NotesEmbedBatch(chunks, n)
        done == [NoAdd EXCEPT !.op = "add_source", !.status = 201, !.id = addReq.id,
                              !.nchunks = Len(chunks)]
    IN
    /\ addReq.pc = "embed"
    /\ addReq' = Idle
    /\ UNCHANGED <<dbSources, relOut>>
    /\ IF ~embedOk
       THEN /\ notesOut' = [done EXCEPT !.ingest = "raised"]
            /\ UNCHANGED dbEmbeddings
       ELSE IF VectorsMismatch(chunks, vectors)
       THEN /\ notesOut' = [done EXCEPT !.ingest = "returned_empty", !.nvectors = n]
            /\ UNCHANGED dbEmbeddings
       ELSE IF ~commitOk
       THEN /\ notesOut' = [done EXCEPT !.ingest = "raised", !.nvectors = n]
            /\ UNCHANGED dbEmbeddings
       ELSE /\ dbEmbeddings' = dbEmbeddings \cup RowsFor(addReq.id, chunks, vectors)
            /\ notesOut' = [done EXCEPT !.ingest = "stored", !.nvectors = n,
                               !.embeddings_generated =
                                   (Cardinality(RowsFor(addReq.id, chunks, vectors)) > 0)]

IngestNext ==
    \/ \E file \in Files, save \in {"ok", "index_failed", "meta_failed"},
          damaged \in BOOLEAN :
           \E n \in 1..Len(ChunksOf(file)) :
               /\ add_documents(EmbedTexts(ChunksOf(file), n), ChunksOf(file), file,
                                save, damaged)
               /\ UNCHANGED notesVars
    \/ \E nb \in Notebooks, doc \in NotesDocs, valid \in BOOLEAN, commitOk \in BOOLEAN :
           add_source_commit(nb, doc, valid, commitOk) /\ UNCHANGED storeVars
    \/ \E n \in 1..Len(NotesChunks(addReq.doc)), embedOk \in BOOLEAN, commitOk \in BOOLEAN :
           add_source_embed(n, embedOk, commitOk) /\ UNCHANGED storeVars

\* ------------------------------------------------------------------------
\* Notes relational search: semantic_search, get_relevant_chunks_for_notebook
\* ------------------------------------------------------------------------
RECURSIVE DotFrom(_, _, _)
DotFrom(a, b, i) == IF i > Len(a) THEN 0 ELSE a[i] * b[i] + DotFrom(a, b, i + 1)

Dot(a, b) == DotFrom(a, b, 1)

\* the Euclidean norm; the vectors of the model have integer norms
Norm(a) == CHOOSE r \in 0..Dot(a, a) : r * r <= Dot(a, a) /\ Dot(a, a) < (r + 1) * (r + 1)

\* n / d rounded to the nearest integer, d > 0
RoundDiv(n, d) == (2 * n + d) \div (2 * d)

\* round(1 - cosine_distance(vector, query), 4), in units of 0.0001
RelScore(v, q) == RoundDiv(10000 * Dot(v, q), Norm(v) * Norm(q))

\* ORDER BY cosine_distance(vector, query): row a may precede row b
RelBefore(a, b, q) == Dot(a, q) * Norm(b) >= Dot(b, q) * Norm(a)

\* the rows the query may return: the k nearest of rows in ascending distance;
\* the order among rows at the same distance is left to the database
RelOrderings(rows, q, k) ==
    {l \in [1..k -> rows] :
        /\ \A i, j \in 1..k : i < j => l[i] # l[j]
        /\ \A i, j \in 1..k : i < j => RelBefore(l[i].vector, l[j].vector, q)
        /\ \A i \in 1..k : \A o \in rows :
               (\A j \in 1..k : l[j] # o) => RelBefore(l[i].vector, o.vector, q)}

\* the result loop of both functions
RelChunks(l, q) ==
    [i \in 1..Len(l) |->
        [chunk |-> l[i].chunk, source_id |-> l[i].source_id,
         source_name |-> dbSources[l[i].source_id].doc,
         score |-> RelScore(l[i].vector, q)]]

\* WHERE Source.notebook_id == notebook_id over the join (the optional
\* Notebook.user_id filter narrows the same rows and is left out)
RowsOfNotebook(nb) == {r \in dbEmbeddings : dbSources[r.source_id].notebook_id = nb}

\* WHERE Embedding.source_id IN source_ids, only for a non-empty list
RowsOfSources(ids) == IF ids = {} THEN dbEmbeddings ELSE {r \in dbEmbeddings : r.source_id \in ids}

\* the search over the matching rows; ok: embed_text and session.execute succeed
RelSearch(op, rows, query, top_n, ok) ==
    /\ IF ok
       THEN \E l \in RelOrderings(rows, NotesEmbed(query), Min(top_n, Cardinality(rows))) :
                relOut' = [op |-> op, result |-> "ok", query |-> query, top_n |-> top_n,
                           results |-> RelChunks(l, NotesEmbed(query))]
       ELSE relOut' = [NoSearch EXCEPT !.op = op, !.result = "error", !.query = query,
                                       !.top_n = top_n]
    /\ UNCHANGED <<dbSources, dbEmbeddings, addReq, notesOut>>

get_relevant_chunks_for_notebook(nb, query, top_n, ok) ==
    RelSearch("get_relevant_chunks", RowsOfNotebook(nb), query, top_n, ok)

semantic_search(query, top_n, source_ids, ok) ==
    RelSearch("semantic_search", RowsOfSources(source_ids), query, top_n, ok)

RECURSIVE StoreAfter(_, _)
\* the FaissStore after the uploads of files, in order
StoreAfter(files, i) ==
    IF i > Len(files) THEN [index |-> <<>>, metadata |-> <<>>]
    ELSE LET rest == StoreAfter(files, i + 1)
             chunks == ChunksOf(files[i])
         IN [index |-> EmbedTexts(chunks, Len(chunks)) \o rest.index,
             metadata |-> MetaFor(chunks, files[i]) \o rest.metadata]

\* the stores reached by uploads that fit the bound
UploadedStores ==
    {st \in {StoreAfter(fs, 1) : fs \in UNION {[1..n -> Files] : n \in 0..MaxVectors}} :
        Len(st.index) <= MaxVectors}

\* all rows of the substantial sources in ids
AllRowsFor(srcs, ids) ==
    UNION {RowsFor(id, NotesChunks(srcs[id].doc),
                   NotesEmbedBatch(NotesChunks(srcs[id].doc), Len(NotesChunks(srcs[id].doc)))) :
              id \in {x \in ids : Substantial(srcs[x].doc)}}

\* a FaissStore filled by uploads
FaissFilled ==
    \E st \in UploadedStores :
        /\ index = st.index
        /\ metadata = st.metadata
        /\ diskIndex = IF Len(st.index) = 0 THEN NoFile ELSE FileOf(st.index)
        /\ diskMeta = IF Len(st.metadata) = 0 THEN NoFile ELSE FileOf(st.metadata)
        /\ everAdded = {st.metadata[i] : i \in 1..Len(st.metadata)}

\* a relational store after add_source requests for notebook n1 whose
\* embeddings were stored
NotesFilled ==
    \E n \in 0..MaxSources : \E docs \in [1..n -> NotesDocs] :
        /\ dbSources = [i \in 1..n |-> [notebook_id |-> "n1", doc |-> docs[i]]]
        /\ dbEmbeddings = AllRowsFor(dbSources, 1..n)

\* store contents for the searches; the two stores share nothing, so one of
\* them is filled while the other is as constructed
SearchInit ==
    /\ \/ FaissFilled /\ dbSources = <<>> /\ dbEmbeddings = {}
       \/ NotesFilled /\ index = <<>> /\ metadata = <<>> /\ diskIndex = NoFile
                      /\ diskMeta = NoFile /\ everAdded = {}
    /\ storeOut = NoCall
    /\ addReq = Idle
    /\ notesOut = NoAdd
    /\ relOut = NoSearch

SearchNext ==
    \/ \E q \in QueryVectors, k \in 1..MaxK : search(q, k) /\ UNCHANGED notesVars
    \/ \E nb \in Notebooks, query \in Queries, top_n \in 1..MaxK, ok \in BOOLEAN :
           get_relevant_chunks_for_notebook(nb, query, top_n, ok) /\ UNCHANGED storeVars
    \/ \E query \in Queries, top_n \in 1..MaxK, ok \in BOOLEAN :
           \E ids \in SUBSET (1..Len(dbSources)) :
               semantic_search(query, top_n, ids, ok) /\ UNCHANGED storeVars

\* ------------------------------------------------------------------------
\* Notes chat: chat_with_notebook and the prompt of GeminiService
\* ------------------------------------------------------------------------
\* _build_history_context: history[-6:]
RecentHistory == 6

\* "No relevant context available."
NoRelevantContext ==
    <<[source |-> 0, name |-> "none", relevance |-> 0, content |-> "NO_RELEVANT_CONTEXT"]>>

\* _build_context_from_chunks: "[Source i: name (relevance: score:.2f)]" and
\* the chunk, one part per chunk in retrieval order
build_context_from_chunks(chunks) ==
    IF Len(chunks) = 0 THEN NoRelevantContext
    ELSE [i \in 1..Len(chunks) |->
             [source |-> i, name |-> chunks[i].source_name,
              relevance |-> RoundDiv(chunks[i].score, 100), content |-> chunks[i].chunk]]

\* _build_history_context: the recent messages of the roles user and assistant
build_history_context(history) ==
    LET recent_history == IF Len(history) > RecentHistory
                          THEN LastN(history, RecentHistory) ELSE history
        known == SelectSeq(recent_history, LAMBDA m : m.role \in {"user", "assistant"})
    IN [i \in 1..Len(known) |->
           [label |-> IF known[i].role = "user" THEN "PREVIOUS_USER_QUESTION"
                                                ELSE "PREVIOUS_ASSISTANT_RESPONSE",
            content |-> known[i].content]]

\* _create_rag_prompt: the segments of the prompt, in the order of the string
create_rag_prompt(user_query, context, history) ==
    <<[segment |-> "system", body |-> <<>>]>>
    \o (IF context # <<>> /\ context # NoRelevantContext
        THEN <<[segment |-> "context", body |-> context]>>
        ELSE <<[segment |-> "note", body |-> <<>>]>>)
    \o (IF history # <<>> THEN <<[segment |-> "history", body |-> history]>> ELSE <<>>)
    \o <<[segment |-> "question", body |-> <<user_query>>]>>

\* the behaviours of model.generate_content
NotesLlmOutcomes == {"ok", "raise"}

\* response.candidates[0].content.parts joined
NotesAnswer == <<"a_ok">>

\* "Failed to retrieve content: {e}" over "Failed to retrieve relevant
\* chunks: {e}" of the retrieval, or over the handler's own 404
RetrieveDetail(failed) ==
    <<"FAILED_TO_RETRIEVE_CONTENT">>
    \o (IF failed THEN <<"FAILED_TO_RETRIEVE_RELEVANT_CHUNKS", "e1">>
                  ELSE <<"404", "NO_CONTENT_FOUND">>)

\* "Failed to generate response: Failed to generate AI response: {e}"
GenerateDetail(e) == <<"FAILED_TO_GENERATE_RESPONSE", "FAILED_TO_GENERATE_AI_RESPONSE", e>>

NoNotesChat ==
    [op |-> "none", status |-> 0, retrieval |-> "none", llm |-> "none",
     answer |-> <<>>, detail |-> <<>>, prompts |-> <<>>, context_used |-> <<>>,
     history |-> <<>>]

NotesChatInit == nchatOut = NoNotesChat

\* POST /chat/{notebook_id}; ok: embed_text and session.execute succeed,
\* llm: the behaviour of the language model if it is called
chat_with_notebook(nb, query, top_n, sid, ok, llm) ==
    /\ get_relevant_chunks_for_notebook(nb, query, top_n, ok)
    /\ LET relevant_chunks == relOut'.results
           failed == relOut'.result = "error"
           chat_history == Lookup(sessions, sid)
           prompt == create_rag_prompt(query, build_context_from_chunks(relevant_chunks),
                                       build_history_context(chat_history))
           user_message == [role |-> "user", content |-> nextMsg]
           ai_message == [role |-> "assistant", content |-> nextMsg + 1]
           updated == DequeAppend(DequeAppend(chat_history, user_message), ai_message)
       IN IF failed \/ Len(relevant_chunks) = 0
          THEN /\ nchatOut' = [NoNotesChat EXCEPT
                                  !.op = "chat", !.status = 500,
                                  !.retrieval = IF failed THEN "failed" ELSE "zero",
                                  !.detail = RetrieveDetail(failed)]
               /\ UNCHANGED memVars
          ELSE IF llm = "raise"
          THEN /\ get_history(sid)
               /\ nchatOut' = [NoNotesChat EXCEPT
                                  !.op = "chat", !.status = 500, !.retrieval = "hits",
                                  !.llm = llm, !.prompts = <<prompt>>,
                                  !.detail = GenerateDetail("e1")]
          ELSE /\ nextMsg + 1 <= MaxMsgs
               /\ sessions' = Put(sessions, sid, updated)
               /\ appended' = Put(appended, sid,
                                  Lookup(appended, sid) \o <<user_message, ai_message>>)
               /\ timestamps' = Put(timestamps, sid, now)
               /\ nextMsg' = nextMsg + 2
               /\ Touch(sid)
               /\ nchatOut' = [NoNotesChat EXCEPT
                                  !.op = "chat", !.status = 200, !.retrieval = "hits",
                                  !.llm = llm, !.prompts = <<prompt>>,
                                  !.answer = NotesAnswer,
                                  !.context_used = relevant_chunks,
                                  !.history = updated]

\* DELETE /chat/{notebook_id}/history
clear_chat_history(sid) == clear_history(sid) /\ UNCHANGED <<notesVars, nchatVars>>

NotesChatNext ==
    \/ \E nb \in Notebooks, query \in Queries, top_n \in 1..MaxK, sid \in SessionIds :
           \E ok \in BOOLEAN, llm \in NotesLlmOutcomes :
               chat_with_notebook(nb, query, top_n, sid, ok, llm)
    \/ \E sid \in SessionIds : clear_chat_history(sid)

\* ------------------------------------------------------------------------
\* chunk_text of ai_chat (overlapping windows) and of Notes (fixed windows)
\* ------------------------------------------------------------------------
\* A text is a sequence of tokens: words, and Blank for whitespace beyond the
\* single separator between two words (leading, trailing or repeated).
Blank == " "
WordTokens == {"a", "b"}
TextTokens == WordTokens \cup {Blank}
ChunkTexts == UNION {[1..n -> TextTokens] : n \in 0..MaxWords}

\* str.split(): the words of a text
Split(text) == SelectSeq(text, LAMBDA t : t # Blank)

\* words[start:end]
Slice(words, start, end) == SubSeq(words, start + 1, end)

\* the wider window that takes one word too many
WindowEndWide(n, start, chunk_size) == Min(n, start + chunk_size + 1)

\* end = min(len(words), start + chunk_size)
WindowEnd(n, start, chunk_size) == Min(n, start + chunk_size)

\* the overlap is forgotten
NextStartNoOverlap(end, overlap) == end

\* start = end - overlap, clamped at 0
NextStart(end, overlap) == IF end - overlap < 0 THEN 0 ELSE end - overlap

ChunkInit ==
    /\ ctFn = "none"
    /\ ctPc = "idle"
    /\ ctText = <<>>
    /\ ctSize = 1
    /\ ctOverlap = 0
    /\ ctStart = 0
    /\ ctChunks = <<>>

\* chunk_text(text, chunk_size, overlap) up to the loop: the two early returns
chunk_text_call(text, chunk_size, overlap) ==
    /\ ctPc = "idle"
    /\ ctFn' = "ai_chat"
    /\ ctText' = text
    /\ ctSize' = chunk_size
    /\ ctOverlap' = overlap
    /\ ctStart' = 0
    /\ IF Split(text) = <<>>
       THEN ctChunks' = <<>> /\ ctPc' = "done"
       ELSE IF Len(Split(text)) <= chunk_size
       THEN ctChunks' = <<text>> /\ ctPc' = "done"
       ELSE ctChunks' = <<>> /\ ctPc' = "loop"

\* one evaluation of the loop condition with the iteration that follows
chunk_text_step ==
    LET words == Split(ctText)
        end == WindowEnd(Len(words), ctStart, ctSize)
    IN
    /\ ctPc = "loop"
    /\ Len(ctChunks) < MaxChunks
    /\ IF ctStart >= Len(words)
       THEN ctPc' = "done" /\ UNCHANGED <<ctChunks, ctStart>>
       ELSE /\ ctChunks' = Append(ctChunks, Slice(words, ctStart, end))
            /\ IF end = Len(words)
               THEN ctPc' = "done" /\ UNCHANGED ctStart
               ELSE ctPc' = "loop" /\ ctStart' = NextStart(end, ctOverlap)
    /\ UNCHANGED <<ctFn, ctText, ctSize, ctOverlap>>

\* range(0, len(words), max_tokens): the number of windows
WindowCount(n, max_tokens) == (n + max_tokens - 1) \div max_tokens

\* chunk_text(text, max_tokens) of Notes
NotesChunkText(text, max_tokens) ==
    IF Split(text) = <<>> THEN <<>>
    ELSE [k \in 1..WindowCount(Len(Split(text)), max_tokens) |->
             Slice(Split(text), (k - 1) * max_tokens,
                   Min(Len(Split(text)), k * max_tokens))]

\* a call of chunk_text of Notes, which has no loop to interleave with
notes_chunk_text(text, max_tokens) ==
    /\ ctPc = "idle"
    /\ ctFn' = "notes"
    /\ ctPc' = "done"
    /\ ctText' = text
    /\ ctSize' = max_tokens
    /\ ctOverlap' = 0
    /\ ctStart' = 0
    /\ ctChunks' = NotesChunkText(text, max_tokens)

ChunkNext ==
    \/ \E text \in ChunkTexts, chunk_size \in 1..MaxChunkSize, overlap \in 0..MaxOverlap :
           chunk_text_call(text, chunk_size, overlap)
    \/ chunk_text_step
    \/ \E text \in ChunkTexts, max_tokens \in 1..MaxChunkSize :
           notes_chunk_text(text, max_tokens)

\* ------------------------------------------------------------------------
\* get_history of both SessionMemory classes and the list it returns
\* ------------------------------------------------------------------------
\* alias: the held list is the very list object stored for session sid; list:
\* the content of a held list that is an object of its own
NoHeld ==
    [kind |-> "none", sid |-> "none", alias |-> FALSE, list |-> <<>>,
     returned |-> <<>>, own |-> <<>>]

HistInit == held = NoHeld

\* the content of the held list as its holder reads it
HeldList == IF held.alias THEN chatSessions[held.sid] ELSE held.list

\* ai_chat SessionMemory.append_message, called on its own
chat_append_message(sid, role, content) ==
    /\ Len(Lookup(chatSessions, sid)) < MaxChatLen
    /\ chatSessions' = append_message(chatSessions, sid, role, content)
    /\ UNCHANGED <<chatOut, held>>

\* ai_chat SessionMemory.get_history: self.sessions.get(session_id, []) is the
\* stored list itself for a known session and a new empty list otherwise
chat_get_history(sid) ==
    /\ held.kind = "none"
    /\ held' = [kind |-> "ai_chat", sid |-> sid, alias |-> (sid \in DOMAIN chatSessions),
                list |-> <<>>, returned |-> Lookup(chatSessions, sid), own |-> <<>>]
    /\ UNCHANGED chatVars

\* ai_chat SessionMemory.clear_session: the key is deleted, a list a caller
\* holds lives on by itself
chat_clear_session(sid) ==
    /\ sid \in DOMAIN chatSessions
    /\ chatSessions' = Drop(chatSessions, {sid})
    /\ held' = IF held.alias /\ held.sid = sid
               THEN [held EXCEPT !.alias = FALSE, !.list = chatSessions[sid]]
               ELSE held
    /\ UNCHANGED chatOut

\* Notes SessionMemory.get_history with its return value, list(deque)
notes_get_history(s) ==
    /\ held.kind = "none"
    /\ get_history(s)
    /\ held' = [kind |-> "notes", sid |-> s, alias |-> FALSE,
                list |-> Lookup(sessions, s), returned |-> Lookup(sessions, s),
                own |-> <<>>]

\* the message a caller appends to the list it holds
CallerMessage == [role |-> "user", content |-> <<"x">>]

\* the caller mutates the returned list: held.append(message)
caller_append ==
    /\ held.kind # "none"
    /\ held.own = <<>>
    /\ IF held.alias
       THEN /\ chatSessions' = Put(chatSessions, held.sid,
                                   Append(chatSessions[held.sid], CallerMessage))
            /\ held' = [held EXCEPT !.own = Append(held.own, CallerMessage)]
       ELSE /\ held' = [held EXCEPT !.own = Append(held.own, CallerMessage),
                                    !.list = Append(held.list, CallerMessage)]
            /\ UNCHANGED chatSessions
    /\ UNCHANGED chatOut

\* the role of a message plays no part in what get_history returns; the
\* messages here are user messages
HistNext ==
    \/ \E sid \in SessionIds :
           chat_append_message(sid, "user", <<"q_ok">>) /\ UNCHANGED memVars
    \/ \E sid \in SessionIds : chat_get_history(sid) /\ UNCHANGED memVars
    \/ \E sid \in SessionIds : chat_clear_session(sid) /\ UNCHANGED memVars
    \/ \E s \in SessionIds :
           add_message(s, "user") /\ UNCHANGED <<chatVars, held>>
    \/ \E s \in SessionIds : notes_get_history(s) /\ UNCHANGED chatVars
    \/ \E s \in SessionIds : clear_history(s) /\ UNCHANGED <<chatVars, held>>
    \/ caller_append /\ UNCHANGED memVars

\* ------------------------------------------------------------------------
\* cs_bot chat: the history of a session in Redis
\* ------------------------------------------------------------------------
CsWorkers == {"w1", "w2"}

\* _serialize: json.dumps of the type and content of every message
Serialize(messages) ==
    [i \in 1..Len(messages) |-> [type |-> messages[i].type, content |-> messages[i].content]]

\* _deserialize: the items of type "human" and "ai", as messages
Deserialize(data) == SelectSeq(data, LAMBDA item : item.type \in {"human", "ai"})

\* HumanMessage(content=req.message), AIMessage(content=reply)
Turn(message, reply) ==
    <<[type |-> "human", content |-> message], [type |-> "ai", content |-> reply]>>

CsIdle == [pc |-> "idle", session_id |-> "none", message |-> 0, history |-> <<>>, reply |-> 0]

CsInit ==
    /\ csRedis = <<>>
    /\ csReq = [w \in CsWorkers |-> CsIdle]
    /\ csStarted = 0
    /\ csCompleted = {}

\* chat up to the first await: history = await get_history(session_id)
cs_get_history(w, sid) ==
    /\ csReq[w].pc = "idle"
    /\ csStarted < MaxRequests
    /\ csStarted' = csStarted + 1
    /\ csReq' = [csReq EXCEPT ![w] =
                     [pc |-> "loaded", session_id |-> sid, message |-> csStarted + 1,
                      history |-> IF sid \in DOMAIN csRedis
                                  THEN Deserialize(csRedis[sid]) ELSE <<>>,
                      reply |-> 0]]
    /\ UNCHANGED <<csRedis, csCompleted>>

\* reply, sources = await generate_reply(req.message, history); an exception
\* of the RAG chain ends the request
cs_generate_reply(w, ok) ==
    /\ csReq[w].pc = "loaded"
    /\ csReq' = [csReq EXCEPT ![w] =
                     IF ok THEN [@ EXCEPT !.pc = "replied", !.reply = csReq[w].message]
                           ELSE CsIdle]
    /\ UNCHANGED <<csRedis, csStarted, csCompleted>>

\* the turn is appended to what Redis holds now, not to what was read
cs_save_history_appends(w) ==
    /\ csReq[w].pc = "replied"
    /\ csRedis' = Put(csRedis, csReq[w].session_id,
                      Lookup(csRedis, csReq[w].session_id)
                          \o Serialize(Turn(csReq[w].message, csReq[w].reply)))
    /\ csCompleted' = csCompleted \cup
           {[session_id |-> csReq[w].session_id, message |-> csReq[w].message]}
    /\ csReq' = [csReq EXCEPT ![w] = CsIdle]
    /\ UNCHANGED csStarted

\* the two history.append, await save_history(session_id, history) and the
\* response
cs_save_history(w) ==
    /\ csReq[w].pc = "replied"
    /\ csRedis' = Put(csRedis, csReq[w].session_id,
                      Serialize(csReq[w].history \o Turn(csReq[w].message, csReq[w].reply)))
    /\ csCompleted' = csCompleted \cup
           {[session_id |-> csReq[w].session_id, message |-> csReq[w].message]}
    /\ csReq' = [csReq EXCEPT ![w] = CsIdle]
    /\ UNCHANGED csStarted

\* DELETE /chat/session/{session_id}: delete_history
cs_clear_session(sid) ==
    /\ sid \in DOMAIN csRedis
    /\ csRedis' = Drop(csRedis, {sid})
    /\ csCompleted' = {c \in csCompleted : c.session_id # sid}
    /\ UNCHANGED <<csReq, csStarted>>

CsNext ==
    \/ \E w \in CsWorkers, sid \in SessionIds : cs_get_history(w, sid)
    \/ \E w \in CsWorkers, ok \in BOOLEAN : cs_generate_reply(w, ok)
    \/ \E w \in CsWorkers : cs_save_history(w)
    \/ \E sid \in SessionIds : cs_clear_session(sid)

\* ------------------------------------------------------------------------
\* login: refresh tokens (auth_routes.py); every request runs in its own
\* database transaction, committed by get_db when the handler has returned
\* ------------------------------------------------------------------------
AuthWorkers == {"w1", "w2"}

\* the tokens a client may present: the issued ones, numbered in order of
\* issue, and 0 for a string that is no token; tokens are random, so no
\* client presents a token before it was issued
PresentedTokens == 0..Len(refresh_tokens)

AuthIdle == [pc |-> "idle", token |-> 0]

NoAuthOut == [op |-> "none", token |-> 0, status |-> 0, refresh_token |-> 0]

AuthInit ==
    /\ refresh_tokens = <<>>
    /\ authReq = [w \in AuthWorkers |-> AuthIdle]
    /\ authOut = NoAuthOut
    /\ loggedOut = {}

\* generate_tokens with create_refresh_token_db: the table with the row of a
\* new random token; presented is the token the request came with (history)
generate_tokens(table, presented) == Append(table, [revoked |-> FALSE, presented |-> presented])

\* POST /auth/login
login(password_ok) ==
    /\ Len(refresh_tokens) < MaxTokens
    /\ IF password_ok
       THEN /\ refresh_tokens' = generate_tokens(refresh_tokens, 0)
            /\ authOut' = [op |-> "login", token |-> 0, status |-> 200,
                           refresh_token |-> Len(refresh_tokens')]
       ELSE /\ authOut' = [NoAuthOut EXCEPT !.op = "login", !.status = 401]
            /\ UNCHANGED refresh_tokens
    /\ UNCHANGED <<authReq, loggedOut>>

\* a token counts as valid whether revoked or not
RowValidAny(table, token) == token \in DOMAIN table

\* refresh_token: the SELECT ... WHERE token_hash == ... AND revoked == False
\* finds a row (expiry is left out: no token of the model expires)
RowValid(table, token) == token \in DOMAIN table /\ ~table[token].revoked

\* POST /auth/refresh up to the SELECT: 401 when no row is found
refresh_select(w, token) ==
    /\ authReq[w].pc = "idle"
    /\ IF RowValid(refresh_tokens, token)
       THEN /\ authReq' = [authReq EXCEPT ![w] = [pc |-> "found", token |-> token]]
            /\ UNCHANGED authOut
       ELSE /\ authOut' = [NoAuthOut EXCEPT !.op = "refresh", !.token = token, !.status = 401]
            /\ UNCHANGED authReq
    /\ UNCHANGED <<refresh_tokens, loggedOut>>

\* POST /auth/refresh from the SELECT on: the row found is revoked, the new
\* tokens are generated, the transaction commits
refresh_commit(w) ==
    /\ authReq[w].pc = "found"
    /\ Len(refresh_tokens) < MaxTokens
    /\ refresh_tokens' = generate_tokens(
           [refresh_tokens EXCEPT ![authReq[w].token].revoked = TRUE], authReq[w].token)
    /\ authOut' = [op |-> "refresh", token |-> authReq[w].token, status |-> 200,
                   refresh_token |-> Len(refresh_tokens')]
    /\ authReq' = [authReq EXCEPT ![w] = AuthIdle]
    /\ UNCHANGED loggedOut

\* POST /auth/logout: the row with the token's hash, if any, is revoked
logout(token) ==
    /\ refresh_tokens' = IF token \in DOMAIN refresh_tokens
                         THEN [refresh_tokens EXCEPT ![token].revoked = TRUE]
                         ELSE refresh_tokens
    /\ authOut' = [NoAuthOut EXCEPT !.op = "logout", !.token = token, !.status = 200]
    /\ loggedOut' = loggedOut \cup {token}
    /\ UNCHANGED authReq

AuthNext ==
    \/ \E password_ok \in BOOLEAN : login(password_ok)
    \/ \E w \in AuthWorkers, token \in PresentedTokens : refresh_select(w, token)
    \/ \E w \in AuthWorkers : refresh_commit(w)
    \/ \E token \in PresentedTokens : logout(token)

\* ------------------------------------------------------------------------
\* Specifications
\* ------------------------------------------------------------------------
\* the state after construction of every component
Init == MemInit /\ StoreInit /\ ChatInit /\ NotesInit /\ ChunkInit /\ HistInit /\ NotesChatInit /\ CsInit /\ AuthInit

\* a FaissStore with content, everything else as constructed
ChatSpecInit == ChatInit /\ ChatStoreInit /\ MemInit /\ NotesInit /\ ChunkInit /\ HistInit /\ NotesChatInit /\ CsInit /\ AuthInit

\* both vector stores with content, everything else as constructed
SearchSpecInit == SearchInit /\ MemInit /\ ChatInit /\ ChunkInit /\ HistInit /\ NotesChatInit /\ CsInit /\ AuthInit

SpecMem == Init /\ [][MemNext /\ UNCHANGED <<storeVars, chatVars, notesVars, chunkVars, histVars, nchatVars, csVars, authVars>>]_vars

\* The worker thread is a daemon loop that is scheduled again and again; an
\* iteration that raises is followed by further iterations.  Only memVars
\* change under MemNext, so the fairness conditions are stated over memVars.
SpecMemFair ==
    /\ Init
    /\ [][MemNext /\ UNCHANGED <<storeVars, chatVars, notesVars, chunkVars, histVars, nchatVars, csVars, authVars>>]_vars
    /\ WF_memVars(cleanup_cutoff)
    /\ SF_memVars(cleanup_locked)

SpecStore == Init /\ [][StoreNext /\ UNCHANGED <<memVars, chatVars, notesVars, chunkVars, histVars, nchatVars, csVars, authVars>>]_vars

SpecChat == ChatSpecInit /\ [][ChatNext /\ UNCHANGED <<memVars, notesVars, chunkVars, histVars, nchatVars, csVars, authVars>>]_vars

\* ingestion into both stores during one lifetime of the processes
SpecIngest == Init /\ [][IngestNext /\ UNCHANGED <<memVars, chatVars, chunkVars, histVars, nchatVars, csVars, authVars>>]_vars

\* searches of both vector stores
SpecSearch == SearchSpecInit /\ [][SearchNext /\ UNCHANGED <<memVars, chatVars, chunkVars, histVars, nchatVars, csVars, authVars>>]_vars

\* one call of either chunker with drawn arguments
SpecChunk ==
    Init /\ [][ChunkNext /\ UNCHANGED <<memVars, storeVars, chatVars, notesVars, histVars, nchatVars, csVars, authVars>>]_vars

\* a relational store with content and the chat requests against it
NotesChatSpecInit ==
    /\ MemInit /\ StoreInit /\ ChatInit /\ ChunkInit /\ HistInit /\ NotesChatInit /\ CsInit /\ AuthInit
    /\ NotesFilled
    /\ addReq = Idle
    /\ notesOut = NoAdd
    /\ relOut = NoSearch

SpecNotesChat ==
    NotesChatSpecInit
    /\ [][NotesChatNext /\ UNCHANGED <<storeVars, chatVars, chunkVars, histVars, csVars, authVars>>]_vars

\* concurrent chat requests of cs_bot
SpecCsBot ==
    Init /\ [][CsNext /\ UNCHANGED <<memVars, storeVars, chatVars, notesVars, chunkVars,
                                     histVars, nchatVars, authVars>>]_vars

\* the auth routes of login with concurrent refresh requests
SpecAuth ==
    Init /\ [][AuthNext /\ UNCHANGED <<memVars, storeVars, chatVars, notesVars, chunkVars,
                                       histVars, nchatVars, csVars>>]_vars

\* both session memories with one caller that holds a returned history
SpecHist ==
    Init /\ [][HistNext /\ UNCHANGED <<storeVars, notesVars, chunkVars, nchatVars, csVars, authVars>>]_vars

\* ------------------------------------------------------------------------
\* Claims about Notes SessionMemory
\* ------------------------------------------------------------------------
\* C1: every session holds at most max_history messages, and once more than
\* max_history messages were appended since creation or the last clear it
\* holds exactly the max_history most recently appended ones, in append order.
C1_HistoryBound ==
    \A s \in DOMAIN sessions :
        /\ Len(sessions[s]) <= MaxHistory
        /\ Len(appended[s]) > MaxHistory =>
               sessions[s] = LastN(appended[s], MaxHistory)

C1_Witness ==
    \E s \in DOMAIN sessions :
        /\ Len(appended[s]) > MaxHistory
        /\ Len(sessions[s]) = MaxHistory
        /\ sessions[s][1] = appended[s][2]

\* C2: the sweep only removes sessions whose last_activity is older than the
\* TTL at the moment of removal, and never one that was touched after the
\* cutoff was computed.
C2_SweepSparesActive ==
    \A r \in sweptLog :
        /\ r.removed_at - r.last_activity > CleanupInterval
        /\ r.id \notin touchedInSweep

C2_Witness ==
    /\ sweepPc = "sleep"
    /\ sweptLog # {}
    /\ \E s \in touchedInSweep :
           /\ s \in DOMAIN sessions
           /\ s \in DOMAIN timestamps
           /\ \A r \in sweptLog : r.removed_at >= timestamps[s]

\* C3: under fair scheduling of the sweeper, a session idle for longer than
\* the TTL is eventually absent from both maps (unless it is touched again),
\* also after a sweep that raised.
Stale(s) ==
    /\ s \in DOMAIN timestamps
    /\ now - timestamps[s] > CleanupInterval

Absent(s) == s \notin DOMAIN sessions /\ s \notin DOMAIN timestamps

C3_StaleEvicted ==
    \A s \in SessionIds : Stale(s) ~> (Absent(s) \/ ~Stale(s))

C3_Witness ==
    /\ sweepRaised
    /\ \E r \in sweptLog : Absent(r.id)


\* session t is in both maps after the step exactly as before it
SameSession(t) ==
    /\ (t \in DOMAIN sessions') = (t \in DOMAIN sessions)
    /\ (t \in DOMAIN timestamps') = (t \in DOMAIN timestamps)
    /\ t \in DOMAIN sessions => sessions'[t] = sessions[t]
    /\ t \in DOMAIN timestamps => timestamps'[t] = timestamps[t]

\* C15: clear_history(s) on an existing session leaves s present with zero
\* messages and last_activity set to the current time; delete_session(s)
\* leaves s absent from the message map and the timestamp map; neither
\* changes another session.
C15_ClearKeepsDeleteRemoves ==
    [][\A s \in SessionIds :
          /\ (clear_history(s) /\ s \in DOMAIN sessions) =>
                 /\ s \in DOMAIN sessions' /\ sessions'[s] = <<>>
                 /\ s \in DOMAIN timestamps' /\ timestamps'[s] = now
                 /\ \A t \in SessionIds \ {s} : SameSession(t)
          /\ delete_session(s) =>
                 /\ s \notin DOMAIN sessions'
                 /\ s \notin DOMAIN timestamps'
                 /\ \A t \in SessionIds \ {s} : SameSession(t)]_vars

C15_Witness ==
    \E s, t \in SessionIds :
        /\ s # t
        /\ s \in DOMAIN sessions /\ sessions[s] = <<>>
        /\ s \in DOMAIN timestamps /\ timestamps[s] = now /\ now > 0
        /\ t \in DOMAIN sessions /\ Len(appended[t]) = 1
        /\ nextMsg = MaxMsgs + 1

\* ------------------------------------------------------------------------
\* Claims about the ai_chat chat handler
\* ------------------------------------------------------------------------
\* C4: a request whose query is flagged by the harmful-content check gets the
\* fixed refusal message and no prompt is sent to the language model, in
\* GENERAL and in RAG mode.
C4_BlockedNeverCallsLlm ==
    contains_harmful_content(<<chatOut.query>>) =>
        /\ chatOut.kind = "answer"
        /\ chatOut.answer = Refusal
        /\ chatOut.prompts = <<>>

C4_Witness ==
    /\ chatOut.query = "q_bad"
    /\ chatOut.mode = "rag"
    /\ Len(index) > 0
    /\ chatOut.answer = Refusal
    /\ \E sid \in DOMAIN chatSessions : Len(chatSessions[sid]) > 0

\* C5: a RAG request whose retrieval yields nothing, the empty store
\* included, ends with a successful reply that starts with the
\* no-relevant-documents notice, and the user query and the assistant reply
\* are both appended to the session history.
C5_EmptyRetrievalFallsBack ==
    chatOut.retrieval \in {"empty_store", "zero"} =>
        /\ chatOut.kind = "answer"
        /\ Len(chatOut.answer) > 0
        /\ chatOut.answer[1] = NoDocsNotice[1]
        /\ Len(chatOut.appended) = 2
        /\ chatOut.appended[1] = [role |-> "user", content |-> <<chatOut.query>>]
        /\ chatOut.appended[2].role = "assistant"

\* ------------------------------------------------------------------------
\* Claims about FaissStore
\* ------------------------------------------------------------------------
\* C10: for k >= 1 a search returns at most k results, each the (text, source)
\* of a metadata entry added to the store before, and on an empty store it
\* returns the empty sequence without an error.
C10_SearchWithinStore ==
    storeOut.op = "search" =>
        /\ storeOut.result = "ok"
        /\ Len(storeOut.results) <= storeOut.k
        /\ \A i \in 1..Len(storeOut.results) :
               /\ [text |-> storeOut.results[i].text,
                   source |-> storeOut.results[i].source] \in everAdded
               /\ \E j \in 1..Len(metadata) :
                      /\ metadata[j].text = storeOut.results[i].text
                      /\ metadata[j].source = storeOut.results[i].source
        /\ Len(index) = 0 => storeOut.results = <<>>

C10_Witness ==
    /\ storeOut.op = "search"
    /\ Len(index) > storeOut.k
    /\ Len(storeOut.results) = storeOut.k
    /\ storeOut.k >= 1

\* the two files hold what the store holds in memory
Saved == diskIndex = FileOf(index) /\ diskMeta = FileOf(metadata)

C27_IndexMatchesMetadata ==
    /\ Len(index) = Len(metadata)
    /\ \A i \in 1..Len(metadata) : index[i] = Embed(metadata[i].text)

\* ------------------------------------------------------------------------
\* Claims about ingestion
\* ------------------------------------------------------------------------
\* every stored text is paired with the vector computed for it
Aligned(idx, meta, rows) ==
    /\ \A i \in 1..Len(meta) : i <= Len(idx) /\ idx[i] = Embed(meta[i].text)
    /\ \A r \in rows : r.vector = NotesEmbed(r.chunk)

\* C6: when the number of vectors differs from the number of chunks, the
\* ingestion call stores nothing (no prefix of the chunks), and no stored text
\* is ever paired with the vector of another text.
C6_MismatchStoresNothing ==
    [][ /\ (storeOut'.op = "add" /\ storeOut'.nvectors # storeOut'.ntexts) =>
               /\ index' = index
               /\ metadata' = metadata
               /\ diskIndex' = diskIndex
               /\ diskMeta' = diskMeta
        /\ (notesOut'.op = "add_source" /\ notesOut'.nvectors # notesOut'.nchunks) =>
               dbEmbeddings' = dbEmbeddings
        /\ Aligned(index', metadata', dbEmbeddings') ]_vars

C6_Witness ==
    /\ storeOut.op = "add"
    /\ storeOut.nvectors # storeOut.ntexts
    /\ Len(metadata) > 0
    /\ notesOut.ingest = "returned_empty"
    /\ notesOut.nvectors # notesOut.nchunks
    /\ dbEmbeddings # {}

\* C7: when the number of vectors differs from the number of chunks, the
\* ingestion of the source ends by raising an error to its caller and does
\* not return normally.
C7_MismatchRaises ==
    /\ (storeOut.op = "add" /\ storeOut.nvectors # storeOut.ntexts) =>
           storeOut.result = "ValueError"
    /\ (notesOut.op = "add_source" /\ notesOut.nvectors # notesOut.nchunks) =>
           notesOut.ingest = "raised"

\* the chunks stored for source id
StoredChunks(id) == {r.chunk : r \in {x \in dbEmbeddings : x.source_id = id}}

\* C8: once add_source has returned or failed, a committed source that was
\* eligible for embedding has all of its chunk embeddings committed.
C8_SourceAndChunksAtomic ==
    \A id \in 1..Len(dbSources) :
        (Substantial(dbSources[id].doc) /\ ~(addReq.pc = "embed" /\ addReq.id = id)) =>
            StoredChunks(id) =
                {NotesChunks(dbSources[id].doc)[i] :
                    i \in 1..Len(NotesChunks(dbSources[id].doc))}

\* ------------------------------------------------------------------------
\* Claims about search
\* ------------------------------------------------------------------------
\* C9 as stated: in the results of FaissStore.search and of the relational
\* searches the scores are non-increasing from the first result to the last.
C9_ScoresNonIncreasing ==
    /\ storeOut.op = "search" =>
           \A i, j \in 1..Len(storeOut.results) :
               i < j => storeOut.results[i].score >= storeOut.results[j].score
    /\ relOut.result = "ok" =>
           \A i, j \in 1..Len(relOut.results) :
               i < j => relOut.results[i].score >= relOut.results[j].score

\* ------------------------------------------------------------------------
\* Claims about chunking
\* ------------------------------------------------------------------------
\* C11: for chunk_size >= 1 and overlap >= 0, overlap >= chunk_size included,
\* every window of chunk_text starts at least one word after the start of
\* the window before it (so the loop terminates).
C11_WindowsAdvance ==
    [][(ctPc = "loop" /\ ctPc' = "loop" /\ ctChunks' # ctChunks) => ctStart' > ctStart]_vars

\* the words of w after its first k
DropFirst(w, k) == SubSeq(w, k + 1, Len(w))

RECURSIVE Rebuild(_, _, _)
\* the words of the first chunk followed by the words of each later chunk
\* without its first overlap words
Rebuild(chunks, overlap, i) ==
    IF i > Len(chunks) THEN <<>>
    ELSE (IF i = 1 THEN Split(chunks[1]) ELSE DropFirst(Split(chunks[i]), overlap))
             \o Rebuild(chunks, overlap, i + 1)

\* C12: for chunk_size > overlap >= 0 the returned chunks reconstruct the
\* words of the text, in order, without gaps or duplicates (chunk_text of
\* ai_chat, and chunk_text of Notes with its overlap of 0).
C12_ChunksReconstruct ==
    (ctPc = "done" /\ ctSize > ctOverlap) =>
        Rebuild(ctChunks, ctOverlap, 1) = Split(ctText)

C12_Witness ==
    /\ ctFn = "ai_chat"
    /\ ctPc = "done"
    /\ ctOverlap >= 1
    /\ ctSize > ctOverlap
    /\ Len(ctChunks) >= 3

\* ceil(a / b) for b > 0
CeilDiv(a, b) == -((-a) \div b)

\* C13 as stated: for a non-empty text of n words and chunk_size > overlap >= 0
\* chunk_text returns exactly ceil((n - overlap) / (chunk_size - overlap))
\* chunks, also when n <= chunk_size and when n <= overlap.
C13_ChunkCountFormula ==
    (ctFn = "ai_chat" /\ ctPc = "done" /\ Split(ctText) # <<>> /\ ctSize > ctOverlap) =>
        Len(ctChunks) = CeilDiv(Len(Split(ctText)) - ctOverlap, ctSize - ctOverlap)

\* C13 amended: for a non-empty text of n words and chunk_size > overlap >= 0
\* chunk_text returns exactly ceil((n - overlap) / (chunk_size - overlap))
\* chunks when n > overlap (n <= chunk_size included), and exactly one chunk
\* when n <= overlap.
C13_ChunkCount ==
    (ctFn = "ai_chat" /\ ctPc = "done" /\ Split(ctText) # <<>> /\ ctSize > ctOverlap) =>
        Len(ctChunks) =
            IF Len(Split(ctText)) <= ctOverlap THEN 1
            ELSE CeilDiv(Len(Split(ctText)) - ctOverlap, ctSize - ctOverlap)

C13_Witness ==
    /\ ctFn = "ai_chat"
    /\ ctPc = "done"
    /\ ctSize = ctOverlap + 1
    /\ ctOverlap = 2
    /\ Len(Split(ctText)) > ctSize
    /\ Len(ctChunks) = 2

\* ------------------------------------------------------------------------
\* Claims about the returned history
\* ------------------------------------------------------------------------
\* C14: the list get_history returned is a snapshot in both classes: a step
\* of anyone but its holder leaves its content as it is, and an append of
\* the holder to it leaves the stored sessions as they are.
C14_HistoryIsSnapshot ==
    [][ /\ (held.kind # "none" /\ held'.own = held.own) => HeldList' = HeldList
        /\ (held.kind # "none" /\ held'.own # held.own) =>
               (chatSessions' = chatSessions /\ sessions' = sessions) ]_vars

\* C28: the message map and the timestamp map of SessionMemory hold the
\* same session ids in every reachable state, so delete_session and the
\* sweep find every key they delete.
C28_MapsShareKeys == DOMAIN sessions = DOMAIN timestamps

\* a sweep removed a session while another one is kept
C28_Witness ==
    /\ sweptLog # {}
    /\ DOMAIN sessions # {}
    /\ sweepPc = "sleep"

\* C29: only add_message creates a session: get_history, clear_history and
\* delete_session for an absent session id leave the set of sessions and the
\* session count of get_session_stats unchanged.
C29_OnlyAddCreates ==
    [][\A s \in SessionIds :
          (s \notin DOMAIN sessions
              /\ (get_history(s) \/ clear_history(s) \/ delete_session(s)))
          => /\ DOMAIN sessions' = DOMAIN sessions
             /\ total_sessions' = total_sessions]_vars

\* ------------------------------------------------------------------------
\* Claims about generation and failures in the ai_chat chat handler
\* ------------------------------------------------------------------------
\* C16: whenever a request reached generation (GENERAL, RAG, RAG fallback)
\* and the model output is flagged by the harmful-content check, the answer
\* returned and the assistant message stored are the fixed policy message.
C16_FlaggedOutputReplaced ==
    (chatOut.llm # "none" /\ contains_harmful_content(GeminiText(chatOut.llm))) =>
        /\ chatOut.answer = PolicyMessage
        /\ Len(chatOut.appended) = 2
        /\ chatOut.appended[2] = [role |-> "assistant", content |-> PolicyMessage]

\* C17: when the language-model client raises, the request ends in an error
\* outcome, no assistant message is stored, and the model was called once.
C17_GenerationFailureSurfaced ==
    chatOut.llm = "raise" =>
        /\ chatOut.kind = "error"
        /\ \A i \in 1..Len(chatOut.appended) : chatOut.appended[i].role # "assistant"
        /\ Len(chatOut.prompts) = 1

\* C19: no response carries the raw error text of a provider: neither the
\* answer nor the error detail the client sees contains it, so the message
\* for one kind of failure is the same whatever the provider said.
C19_NoProviderTextLeaks ==
    \A e \in ProviderErrorTexts :
        /\ \A i \in 1..Len(chatOut.answer) : chatOut.answer[i] # e
        /\ \A i \in 1..Len(chatOut.detail) : chatOut.detail[i] # e

\* C21: the prompt of every request that reached the language model, in
\* every mode and at every position of a session, contains the text of the
\* current query.
C21_PromptContainsQuery ==
    \A n \in 1..Len(chatOut.prompts) :
        LET prompt == chatOut.prompts[n]
        IN \/ \E i \in 1..Len(prompt.question) : prompt.question[i] = chatOut.query
           \/ \E d \in 1..Len(prompt.context) :
                  \E i \in 1..Len(prompt.context[d]) : prompt.context[d][i] = chatOut.query

\* the number of messages of a role in a history
CountRole(history, role) == Cardinality({i \in 1..Len(history) : history[i].role = role})

\* C25: a request that ends in an error leaves the session history as it
\* was: after every completed request each history has as many assistant
\* messages as user messages.
C25_ErrorLeavesHistory ==
    \A sid \in DOMAIN chatSessions :
        CountRole(chatSessions[sid], "user") = CountRole(chatSessions[sid], "assistant")

\* C30: a request whose query the pre-generation moderation blocks leaves
\* the history of every session, its own included, as it was.
C30_BlockedKeepsHistory ==
    [][\A query \in Queries, mode \in ChatModes, sid \in SessionIds, llm \in LlmOutcomes :
          (contains_harmful_content(<<query>>) /\ chat(query, mode, 1, sid, llm, TRUE, <<>>))
              => chatSessions' = chatSessions]_vars

C30_Witness ==
    /\ chatOut.query = "q_bad"
    /\ chatOut.answer = Refusal
    /\ chatOut.session \in DOMAIN chatSessions
    /\ Len(chatSessions[chatOut.session]) > 0

\* ------------------------------------------------------------------------
\* Claims about the Notes chat handler
\* ------------------------------------------------------------------------
\* C18: a retrieval with zero results ends in a non-error fallback reply, an
\* unavailable store ends in an error without a call of the language model;
\* the two never yield the same kind of outcome.
C18_ZeroResultsIsNotFailure ==
    /\ nchatOut.retrieval = "zero" => nchatOut.status = 200
    /\ nchatOut.retrieval = "failed" => (nchatOut.status >= 400 /\ nchatOut.prompts = <<>>)

\* the segments of the prompt sent last, in order
PromptSegments == [i \in 1..Len(nchatOut.prompts[1]) |-> nchatOut.prompts[1][i].segment]

\* C20: in a RAG prompt the recent history comes before the retrieved
\* chunks: system instruction, history, chunks, question.
C20_HistoryBeforeChunks ==
    nchatOut.prompts # <<>> =>
        \A i, j \in 1..Len(PromptSegments) :
            (PromptSegments[i] = "history" /\ PromptSegments[j] = "context") => i < j

\* ------------------------------------------------------------------------
\* Claims about the cs_bot chat handler
\* ------------------------------------------------------------------------
\* the turn of a completed request is in the history stored for its session
TurnStored(c) ==
    /\ c.session_id \in DOMAIN csRedis
    /\ \E i \in 1..Len(csRedis[c.session_id]) :
           csRedis[c.session_id][i] = [type |-> "human", content |-> c.message]
    /\ \E i \in 1..Len(csRedis[c.session_id]) :
           csRedis[c.session_id][i] = [type |-> "ai", content |-> c.message]

\* C26 as stated: once the concurrent requests of a session have completed,
\* the stored history holds the human and AI message of each of them.
C26_NoTurnLost ==
    (\A w \in CsWorkers : csReq[w].pc = "idle") => \A c \in csCompleted : TurnStored(c)

\* C26: the history a request stores is the history it read followed by its
\* own human and AI message, whatever another request of the session stored
\* in between; the last save wins.
C26_LastSaveWins ==
    [][\A w \in CsWorkers :
          cs_save_history(w) =>
              csRedis'[csReq[w].session_id]
                  = csReq[w].history \o Turn(csReq[w].message, csReq[w].reply)]_vars

\* two requests of one session have completed and the turn of one is gone
C26_Witness ==
    /\ \A w \in CsWorkers : csReq[w].pc = "idle"
    /\ \E c, d \in csCompleted :
           /\ c.session_id = d.session_id
           /\ c # d
           /\ TurnStored(d)
           /\ ~TurnStored(c)

\* ------------------------------------------------------------------------
\* Claims about the refresh tokens of login
\* ------------------------------------------------------------------------
\* C23: once a logout with a refresh token has succeeded, every refresh
\* request that presents the token afterwards is answered with 401 and issues
\* no token, whatever logins, refreshes and logouts happened in between.
C23_LoggedOutTokenRejected ==
    [][\A w \in AuthWorkers, token \in PresentedTokens :
          (token \in loggedOut /\ refresh_select(w, token)) =>
              /\ authOut' = [NoAuthOut EXCEPT !.op = "refresh", !.token = token,
                                              !.status = 401]
              /\ authReq'[w].pc = "idle"
              /\ refresh_tokens' = refresh_tokens]_vars

\* a refresh with a token that was issued and then logged out got 401, after
\* other tokens were issued
C23_Witness ==
    /\ authOut.op = "refresh"
    /\ authOut.status = 401
    /\ authOut.token \in loggedOut
    /\ authOut.token \in DOMAIN refresh_tokens
    /\ Len(refresh_tokens) > authOut.token

\* C24: refresh tokens are rotated and single-use: the token a refresh
\* returns differs from the one presented, the presented one is revoked, and
\* among all refresh requests presenting one token at most one succeeds.
C24_SingleUse ==
    /\ authOut.op = "refresh" /\ authOut.status = 200 =>
           /\ authOut.refresh_token # authOut.token
           /\ refresh_tokens[authOut.token].revoked
    /\ \A token \in DOMAIN refresh_tokens :
           Cardinality({n \in DOMAIN refresh_tokens :
                            refresh_tokens[n].presented = token}) <= 1
====
